---- MODULE Spec2Model ----
(***************************************************************************)
(* A model of the pinata-sdk client library (src/src/lib.rs,               *)
(* src/src/utils.rs, src/src/api/data.rs).                                 *)
(*                                                                         *)
(* Strings whose characters matter (credentials, serde field names, query  *)
(* values) are sequences of one-character strings; names that are only     *)
(* compared or concatenated (file names, urls) are TLA+ strings.           *)
(*                                                                         *)
(* Specifications:                                                         *)
(*   SpecNew     PinataApi::new applied to bounded credential strings      *)
(*   SpecFilter  PinJobsFilter setters followed by get_pin_jobs' query     *)
(*   SpecPinFile pin_file's upload assembly over bounded directory trees   *)
(*   SpecParse   parse_result / parse_ok_result applied to responses       *)
(*   SpecCall    concurrent calls of the public operations on one handle   *)
(*   SpecBuilder chained setters of the pin requests, then the pin call    *)
(***************************************************************************)
EXTENDS Integers, Sequences, FiniteSets, TLC

VARIABLES
  new_in,      \* SpecNew: the arguments of PinataApi::new
  new_out,     \* SpecNew: what PinataApi::new produced
  filter,      \* SpecFilter: the PinJobsFilter under construction
  jobs_req,    \* SpecFilter: the request built by the last get_pin_jobs
  fs,          \* the file system seen by pin_file (the current directory)
  pin_arg,     \* SpecPinFile: the PinByFile request handed to pin_file
  upload,      \* SpecPinFile: outcome of pin_file's assembly and send
  pr_in,       \* SpecParse: operation and response handed to the mapper
  pr_out,      \* SpecParse: the mapper's result
  client,      \* SpecCall: the PinataApi handle (its default headers)
  pc,          \* SpecCall: position of each caller's call
  call,        \* SpecCall: operation and argument of each caller's call
  sends,       \* SpecCall: number of send() invocations of each call
  wire,        \* SpecCall: requests sent and not yet answered
  resp,        \* SpecCall: the response each call's send() resolved to
  served,      \* SpecCall: the response the service produced for each call
  result,      \* SpecCall: the value each call returned
  builder,     \* SpecBuilder: the pin request under construction
  calls,       \* SpecBuilder: the setter calls made on it, in order
  built        \* SpecBuilder: the request the pin operation built from it

vars == <<new_in, new_out, filter, jobs_req, fs, pin_arg, upload, pr_in, pr_out,
          client, pc, call, sends, wire, resp, served, result,
          builder, calls, built>>

newVars    == <<new_in, new_out>>
filterVars == <<filter, jobs_req>>
pinVars    == <<pin_arg, upload>>
parseVars  == <<pr_in, pr_out>>
callVars   == <<client, pc, call, sends, wire, resp, served, result>>
buildVars  == <<builder, calls, built>>

(***************************************************************************)
(* Option<T>                                                               *)
(***************************************************************************)
None == [some |-> FALSE]
Some(v) == [some |-> TRUE, val |-> v]
IsSome(o) == o.some

RECURSIVE SeqsUpTo(_, _)
SeqsUpTo(S, n) ==
  IF n = 0 THEN {<<>>}
  ELSE LET shorter == SeqsUpTo(S, n - 1)
       IN  shorter \cup {Append(s, x) : s \in shorter, x \in S}

(***************************************************************************)
(* utils.rs                                                                *)
(***************************************************************************)
BASE_URL == "https://api.pinata.cloud"

api_url(path) == BASE_URL \o path

OkUnit == [tag |-> "Ok"]
Err(e) == [tag |-> "Err", err |-> e]
Panic == [tag |-> "Panic"]

\* str::is_empty
is_empty(s) == Len(s) = 0

validate_keys_no_secret_check(api_key, secret_api_key) ==
  IF is_empty(api_key) THEN Err("InvalidApiKey") ELSE OkUnit

validate_keys(api_key, secret_api_key) ==
  IF is_empty(api_key) THEN Err("InvalidApiKey")
  ELSE IF is_empty(secret_api_key) THEN Err("InvalidSecretApiKey")
  ELSE OkUnit

(***************************************************************************)
(* PinataApi::new                                                          *)
(***************************************************************************)
MaxKeyLen == 2

\* The characters credentials are drawn from: a letter, a blank, a tab and a
\* line feed (a byte no header value may hold).
KeyChars == {"k", " ", "\t", "\n"}

Byte(ch) == CASE ch = "k" -> 107 [] ch = " " -> 32 [] ch = "\t" -> 9 [] ch = "\n" -> 10

KeyStrings == SeqsUpTo(KeyChars, MaxKeyLen)

\* (&owned_key).parse::<HeaderValue>(): every byte is >= 32 and not DEL, or a tab.
HeaderValueParse(s) ==
  IF \A i \in 1..Len(s) : (Byte(s[i]) >= 32 /\ Byte(s[i]) # 127) \/ Byte(s[i]) = 9
  THEN Some(s) ELSE None

\* build_ok: whether ClientBuilder::build() succeeds (it fails when the TLS
\* backend or the resolver cannot be initialised).
PinataApi_new(api_key, secret_api_key, build_ok) ==
  LET valid == validate_keys(api_key, secret_api_key)
      k == HeaderValueParse(api_key)
      s == HeaderValueParse(secret_api_key)
  IN  IF valid.tag = "Err" THEN valid
      ELSE IF ~IsSome(k) \/ ~IsSome(s) THEN Panic
      ELSE IF ~build_ok THEN Err("ClientBuild")
      ELSE [tag |-> "Ok",
            client |-> [default_headers |->
                          [pinata_api_key |-> k.val, pinata_secret_api_key |-> s.val]]]

NotCalled == [tag |-> "NotCalled"]

New ==
  /\ new_out = NotCalled
  /\ \E build_ok \in BOOLEAN :
       new_out' = PinataApi_new(new_in.api_key, new_in.secret_api_key, build_ok)
  /\ UNCHANGED <<new_in, filterVars, fs, pinVars, parseVars, callVars, buildVars>>

(***************************************************************************)
(* serde: field and variant names as they are written on the wire          *)
(***************************************************************************)
LowerCase == <<"a","b","c","d","e","f","g","h","i","j","k","l","m",
               "n","o","p","q","r","s","t","u","v","w","x","y","z">>
UpperCase == <<"A","B","C","D","E","F","G","H","I","J","K","L","M",
               "N","O","P","Q","R","S","T","U","V","W","X","Y","Z">>

IsUpper(ch) == \E i \in 1..26 : UpperCase[i] = ch
IsLower(ch) == \E i \in 1..26 : LowerCase[i] = ch
ToUpper(ch) == IF IsLower(ch) THEN UpperCase[CHOOSE i \in 1..26 : LowerCase[i] = ch] ELSE ch
ToLower(ch) == IF IsUpper(ch) THEN LowerCase[CHOOSE i \in 1..26 : UpperCase[i] = ch] ELSE ch

\* serde_derive RenameRule::CamelCase applied to a field (a snake_case
\* identifier): underscores are dropped and the letter after one is capitalised.
RECURSIVE CamelFrom(_, _, _)
CamelFrom(ident, i, capitalize) ==
  IF i > Len(ident) THEN <<>>
  ELSE IF ident[i] = "_" THEN CamelFrom(ident, i + 1, TRUE)
  ELSE <<IF capitalize THEN ToUpper(ident[i]) ELSE ident[i]>>
         \o CamelFrom(ident, i + 1, FALSE)

\* serde_derive RenameRule::SnakeCase applied to a variant (a PascalCase
\* identifier): an underscore before every capital but the first, all lowered.
RECURSIVE SnakeFrom(_, _)
SnakeFrom(ident, i) ==
  IF i > Len(ident) THEN <<>>
  ELSE (IF IsUpper(ident[i]) /\ i > 1 THEN <<"_">> ELSE <<>>)
         \o <<ToLower(ident[i])>> \o SnakeFrom(ident, i + 1)

\* #[serde(rename_all = rule)]; "none" when the type carries no such attribute.
RenameField(rule, ident) ==
  IF rule = "camelCase" THEN CamelFrom(ident, 1, FALSE)
  ELSE IF rule = "PascalCase" THEN CamelFrom(ident, 1, TRUE)
  ELSE ident
RenameVariant(rule, ident) ==
  IF rule = "snake_case" THEN SnakeFrom(ident, 1) ELSE ident

Digits == <<"0","1","2","3","4","5","6","7","8","9">>

\* Display of an unsigned integer
RECURSIVE ToDec(_)
ToDec(n) ==
  IF n < 10 THEN <<Digits[n + 1]>>
  ELSE ToDec(n \div 10) \o <<Digits[(n % 10) + 1]>>

(***************************************************************************)
(* api/data.rs: SortDirection, JobStatus, PinJobsFilter                    *)
(***************************************************************************)
ASC  == <<"A","S","C">>
DESC == <<"D","E","S","C">>
SortDirection == {ASC, DESC}
SortDirection_rename_all == "none"

Prechecking   == <<"P","r","e","c","h","e","c","k","i","n","g">>
Searching     == <<"S","e","a","r","c","h","i","n","g">>
Retrieving    == <<"R","e","t","r","i","e","v","i","n","g">>
Expired       == <<"E","x","p","i","r","e","d">>
OverFreeLimit == <<"O","v","e","r","F","r","e","e","L","i","m","i","t">>
OverMaxSize   == <<"O","v","e","r","M","a","x","S","i","z","e">>
InvalidObject == <<"I","n","v","a","l","i","d","O","b","j","e","c","t">>
BadHostNode   == <<"B","a","d","H","o","s","t","N","o","d","e">>
JobStatus == {Prechecking, Searching, Retrieving, Expired,
              OverFreeLimit, OverMaxSize, InvalidObject, BadHostNode}
JobStatus_rename_all == "snake_case"

\* The fields of PinJobsFilter, in declaration order.
f_sort          == <<"s","o","r","t">>
f_status        == <<"s","t","a","t","u","s">>
f_ipfs_pin_hash == <<"i","p","f","s","_","p","i","n","_","h","a","s","h">>
f_limit         == <<"l","i","m","i","t">>
f_offset        == <<"o","f","f","s","e","t">>
PinJobsFilter_fields == <<f_sort, f_status, f_ipfs_pin_hash, f_limit, f_offset>>

PinJobsFilter_rename_all_camel == "camelCase"
\* #[derive(Clone, Default, Serialize)] with no rename_all attribute
PinJobsFilter_rename_all == "none"

\* PinJobsFilter::new(): Default, every field None
PinJobsFilter_new ==
  [sort |-> None, status |-> None, ipfs_pin_hash |-> None, limit |-> None, offset |-> None]

set_sort(self, direction) == [self EXCEPT !.sort = Some(direction)]
set_status(self, status) == [self EXCEPT !.status = Some(status)]
set_ipfs_pin_hash(self, hash) == [self EXCEPT !.ipfs_pin_hash = Some(hash)]
set_limit(self, limit) == [self EXCEPT !.limit = Some(limit)]
set_offset(self, offset) == [self EXCEPT !.offset = Some(offset)]

\* The value of each field as serde hands it to the serializer: a unit variant
\* by its (renamed) name, a string as it is, an integer by its digits.
PinJobsFilter_values(f) ==
  << IF IsSome(f.sort) THEN Some(RenameVariant(SortDirection_rename_all, f.sort.val)) ELSE None,
     IF IsSome(f.status) THEN Some(RenameVariant(JobStatus_rename_all, f.status.val)) ELSE None,
     f.ipfs_pin_hash,
     IF IsSome(f.limit) THEN Some(ToDec(f.limit.val)) ELSE None,
     IF IsSome(f.offset) THEN Some(ToDec(f.offset.val)) ELSE None >>

\* serde_urlencoded over a struct: one (name, value) pair per field in
\* declaration order; a None value contributes no pair.
RECURSIVE QueryPairsFrom(_, _, _, _)
QueryPairsFrom(rule, fields, values, i) ==
  IF i > Len(fields) THEN <<>>
  ELSE (IF IsSome(values[i])
        THEN <<[name |-> RenameField(rule, fields[i]), value |-> values[i].val]>>
        ELSE <<>>)
       \o QueryPairsFrom(rule, fields, values, i + 1)

QueryPairs_keep_none(f) ==
  [i \in 1..Len(PinJobsFilter_fields) |->
     [name |-> PinJobsFilter_fields[i],
      value |-> IF IsSome(PinJobsFilter_values(f)[i])
                THEN PinJobsFilter_values(f)[i].val ELSE <<>>]]

\* RequestBuilder::query(&filters)
PinJobsFilter_query(f) ==
  QueryPairsFrom(PinJobsFilter_rename_all, PinJobsFilter_fields, PinJobsFilter_values(f), 1)

\* The request get_pin_jobs builds before send()
get_pin_jobs_request(filters) ==
  [method |-> "GET", url |-> api_url("/pinning/pinJobs"),
   query |-> PinJobsFilter_query(filters), body |-> None]

\* Arguments the setters are called with
HashArgs == { <<"Q","m">>, <<"Q","m","b">> }
U16_MAX == 65535
LimitArgs == {1, U16_MAX}
OffsetArgs == {0, 10}

SetSort ==
  /\ jobs_req = None
  /\ \E d \in SortDirection : filter' = set_sort(filter, d)
  /\ UNCHANGED <<jobs_req, newVars, fs, pinVars, parseVars, callVars, buildVars>>

SetStatus ==
  /\ jobs_req = None
  /\ \E s \in JobStatus : filter' = set_status(filter, s)
  /\ UNCHANGED <<jobs_req, newVars, fs, pinVars, parseVars, callVars, buildVars>>

SetIpfsPinHash ==
  /\ jobs_req = None
  /\ \E h \in HashArgs : filter' = set_ipfs_pin_hash(filter, h)
  /\ UNCHANGED <<jobs_req, newVars, fs, pinVars, parseVars, callVars, buildVars>>

SetLimit ==
  /\ jobs_req = None
  /\ \E l \in LimitArgs : filter' = set_limit(filter, l)
  /\ UNCHANGED <<jobs_req, newVars, fs, pinVars, parseVars, callVars, buildVars>>

SetOffset ==
  /\ jobs_req = None
  /\ \E o \in OffsetArgs : filter' = set_offset(filter, o)
  /\ UNCHANGED <<jobs_req, newVars, fs, pinVars, parseVars, callVars, buildVars>>

\* get_pin_jobs(filters) up to send(): the filter is moved into the call.
GetPinJobs ==
  /\ jobs_req = None
  /\ jobs_req' = Some(get_pin_jobs_request(filter))
  /\ UNCHANGED <<filter, newVars, fs, pinVars, parseVars, callVars, buildVars>>

\* The caller starts over with PinJobsFilter::new().
NewFilter ==
  /\ jobs_req # None
  /\ filter' = PinJobsFilter_new
  /\ jobs_req' = None
  /\ UNCHANGED <<newVars, fs, pinVars, parseVars, callVars, buildVars>>

(***************************************************************************)
(* The file system pin_file reads.  A node is a file or a directory; a     *)
(* directory lists its entries in the order read_dir returns them.         *)
(* readable = FALSE: fs::read of the file, or read_dir of the directory,   *)
(* fails with an I/O error.                                                *)
(***************************************************************************)
MaxEntries == 2

\* A file name that is not valid UTF-8 (OsStr::to_str gives None for it)
NonUtf8Name == "\\xFF.txt"

File(readable, bytes) == [kind |-> "file", readable |-> readable, bytes |-> bytes]
Dir(readable, entries) == [kind |-> "dir", readable |-> readable, entries |-> entries]
Entry(name, node) == [name |-> name, node |-> node]

DistinctNames(entries) ==
  \A i, j \in 1..Len(entries) : i # j => entries[i].name # entries[j].name

FileEntries ==
  { Entry("a.txt", File(TRUE, "A")), Entry("a.txt", File(FALSE, "A")),
    Entry("b.txt", File(TRUE, "B")) }

SubDirs ==
  { Dir(TRUE, es) : es \in {e \in SeqsUpTo(FileEntries, MaxEntries) : DistinctNames(e)} }
    \cup { Dir(FALSE, <<>>) }

DirEntries ==
  FileEntries \cup { Entry(NonUtf8Name, File(TRUE, "X")) }
    \cup { Entry("sub", n) : n \in SubDirs }

\* The current directory: a directory d and a file f.txt beside it.
FileSystems ==
  { Dir(TRUE, <<Entry("d", dnode), Entry("f.txt", File(TRUE, "F"))>>) :
      dnode \in { Dir(TRUE, es) :
                    es \in {e \in SeqsUpTo(DirEntries, MaxEntries) : DistinctNames(e)} }
                \cup { Dir(FALSE, <<>>) } }

(***************************************************************************)
(* std::path::Path: a path is the sequence of its components.              *)
(***************************************************************************)
IsNormal(component) == component \notin {".", "..", "/"}

\* Path::file_name: the last component when it is a normal one
file_name(path) ==
  IF Len(path) > 0 /\ IsNormal(path[Len(path)]) THEN Some(path[Len(path)]) ELSE None

\* OsStr::to_str
to_str(name) == IF name = NonUtf8Name THEN None ELSE Some(name)

\* Path::to_str of a relative path: its components joined by the separator
RECURSIVE path_to_str(_)
path_to_str(path) ==
  IF Len(path) = 0 THEN Some("")
  ELSE IF ~IsSome(to_str(path[1])) THEN None
  ELSE IF Len(path) = 1 THEN to_str(path[1])
  ELSE LET rest == path_to_str(Tail(path))
       IN  IF IsSome(rest) THEN Some(path[1] \o "/" \o rest.val) ELSE None

\* Path::strip_prefix
strip_prefix(path, base) ==
  IF Len(base) <= Len(path) /\ SubSeq(path, 1, Len(base)) = base
  THEN Some(SubSeq(path, Len(base) + 1, Len(path))) ELSE None

Lookup(dir, name) ==
  IF dir.kind = "dir" /\ \E i \in 1..Len(dir.entries) : dir.entries[i].name = name
  THEN Some(dir.entries[CHOOSE i \in 1..Len(dir.entries) : dir.entries[i].name = name].node)
  ELSE None

\* A directory whose entries can be looked up: the OS needs search permission
\* on it, which a directory that cannot be read (mode 000) does not give.
Searchable(node) == node.kind = "dir" /\ node.readable

\* The node a path names, walking from the current directory; stack holds the
\* directories entered so far.  Every component, "." and ".." included, is
\* looked up in the directory reached so far.
RECURSIVE ResolveFrom(_, _, _)
ResolveFrom(stack, path, i) ==
  IF i > Len(path) THEN Some(stack[Len(stack)])
  ELSE IF ~Searchable(stack[Len(stack)]) THEN None
  ELSE IF path[i] = "." THEN ResolveFrom(stack, path, i + 1)
  ELSE IF path[i] = ".."
    THEN IF Len(stack) > 1
         THEN ResolveFrom(SubSeq(stack, 1, Len(stack) - 1), path, i + 1)
         ELSE None
  ELSE LET child == Lookup(stack[Len(stack)], path[i])
       IN  IF IsSome(child) THEN ResolveFrom(Append(stack, child.val), path, i + 1)
           ELSE None

Resolve(root, path) == IF Len(path) = 0 THEN None ELSE ResolveFrom(<<root>>, path, 1)

\* Path::is_dir
is_dir(root, path) ==
  LET n == Resolve(root, path) IN IsSome(n) /\ n.val.kind = "dir"

\* fs::read
fs_read(root, path) ==
  LET n == Resolve(root, path)
  IN  IF IsSome(n) /\ n.val.kind = "file" /\ n.val.readable THEN Some(n.val.bytes) ELSE None

(***************************************************************************)
(* walkdir::WalkDir::new(base_path): the directory itself, then each entry *)
(* followed by its contents; a directory that cannot be listed yields an   *)
(* error item after its own entry.                                         *)
(***************************************************************************)
WalkOk(path) == [ok |-> TRUE, path |-> path]
WalkErr(path) == [ok |-> FALSE, path |-> path]

RECURSIVE WalkNode(_, _)
RECURSIVE WalkEntries(_, _, _)

WalkNode_flat(node, path) ==
  <<WalkOk(path)>> \o
    (IF node.kind # "dir" THEN <<>>
     ELSE IF ~node.readable THEN <<WalkErr(path)>>
     ELSE [i \in 1..Len(node.entries) |-> WalkOk(Append(path, node.entries[i].name))])

WalkNode(node, path) ==
  <<WalkOk(path)>> \o
    (IF node.kind # "dir" THEN <<>>
     ELSE IF ~node.readable THEN <<WalkErr(path)>>
     ELSE WalkEntries(node.entries, 1, path))
WalkEntries(entries, i, path) ==
  IF i > Len(entries) THEN <<>>
  ELSE WalkNode(entries[i].node, Append(path, entries[i].name))
         \o WalkEntries(entries, i + 1, path)

WalkDir(root, base_path) == WalkNode(Resolve(root, base_path).val, base_path)

(***************************************************************************)
(* api/data.rs: PinByFile                                                  *)
(***************************************************************************)
PinMetadata(name, keyvalues) == [name |-> name, keyvalues |-> keyvalues]

PinByFile_new(file_or_dir_path) ==
  [files |-> <<[file_path |-> file_or_dir_path]>>,
   pinata_metadata |-> None,
   pinata_option |-> None]

PinByFile_set_metadata(self, keyvalues) ==
  [self EXCEPT !.pinata_metadata = Some(PinMetadata(None, keyvalues))]

PinByFile_set_metadata_with_name(self, name, keyvalues) ==
  [self EXCEPT !.pinata_metadata = Some(PinMetadata(Some(name), keyvalues))]

PinByFile_set_options(self, options) ==
  [self EXCEPT !.pinata_option = Some(options)]

(***************************************************************************)
(* PinataApi::pin_file: the multipart form                                 *)
(***************************************************************************)
\* Form::part("file", Part::bytes(bytes).file_name(name))
FilePart(name, bytes) == [name |-> "file", file_name |-> Some(name), value |-> bytes]
\* Form::text(field, value)
TextPart(field, value) == [name |-> field, file_name |-> None, value |-> value]

\* serde_json::to_string(&v)
to_json_string(v) == [json |-> v]

Running(form, reads) == [tag |-> "Running", err |-> "", form |-> form, reads |-> reads]
Failed(st, e) == [st EXCEPT !.tag = "Err", !.err = e]
Panicked(st) == [st EXCEPT !.tag = "Panic"]

pin_file_entry_skip_unreadable(root, base_path, st, item) ==
  IF st.tag # "Running" THEN st
  ELSE IF ~item.ok THEN Failed(st, "WalkDir")
  ELSE IF is_dir(root, item.path) THEN st
  ELSE LET path_name == strip_prefix(item.path, base_path)
       IN  IF ~IsSome(path_name) THEN Failed(st, "StripPrefix")
           ELSE IF ~IsSome(file_name(base_path)) THEN Panicked(st)
           ELSE IF ~IsSome(to_str(file_name(base_path).val)) THEN Panicked(st)
           ELSE IF ~IsSome(path_to_str(path_name.val)) THEN Panicked(st)
           ELSE LET part_file_name ==
                      to_str(file_name(base_path).val).val \o "/" \o path_to_str(path_name.val).val
                    bytes == fs_read(root, item.path)
                    read == [st EXCEPT !.reads = Append(st.reads, item.path)]
                IN  IF ~IsSome(bytes) THEN read
                    ELSE [read EXCEPT !.form = Append(st.form, FilePart(part_file_name, bytes.val))]

pin_file_entry_base_name_only(root, base_path, st, item) ==
  IF st.tag # "Running" THEN st
  ELSE IF ~item.ok THEN Failed(st, "WalkDir")
  ELSE IF is_dir(root, item.path) THEN st
  ELSE LET path_name == strip_prefix(item.path, base_path)
       IN  IF ~IsSome(path_name) THEN Failed(st, "StripPrefix")
           ELSE IF ~IsSome(file_name(base_path)) THEN Panicked(st)
           ELSE IF ~IsSome(to_str(file_name(base_path).val)) THEN Panicked(st)
           ELSE IF ~IsSome(path_to_str(path_name.val)) THEN Panicked(st)
           ELSE LET part_file_name ==
                      to_str(file_name(base_path).val).val \o "/" \o item.path[Len(item.path)]
                    bytes == fs_read(root, item.path)
                    read == [st EXCEPT !.reads = Append(st.reads, item.path)]
                IN  IF ~IsSome(bytes) THEN Failed(read, "Io")
                    ELSE [read EXCEPT !.form = Append(st.form, FilePart(part_file_name, bytes.val))]

\* The body of the loop over WalkDir::new(base_path), lib.rs 194-209, applied
\* to one item; a call that has returned or panicked takes no further step.
pin_file_entry(root, base_path, st, item) ==
  IF st.tag # "Running" THEN st
  ELSE IF ~item.ok THEN Failed(st, "WalkDir")                 \* entry_result?
  ELSE IF is_dir(root, item.path) THEN st                     \* continue
  ELSE LET path_name == strip_prefix(item.path, base_path)
       IN  IF ~IsSome(path_name) THEN Failed(st, "StripPrefix")
           ELSE IF ~IsSome(file_name(base_path)) THEN Panicked(st)
           ELSE IF ~IsSome(to_str(file_name(base_path).val)) THEN Panicked(st)
           ELSE IF ~IsSome(path_to_str(path_name.val)) THEN Panicked(st)
           ELSE LET part_file_name ==
                      to_str(file_name(base_path).val).val \o "/" \o path_to_str(path_name.val).val
                    bytes == fs_read(root, item.path)
                    read == [st EXCEPT !.reads = Append(st.reads, item.path)]
                IN  IF ~IsSome(bytes) THEN Failed(read, "Io")
                    ELSE [read EXCEPT !.form = Append(st.form, FilePart(part_file_name, bytes.val))]

RECURSIVE pin_file_walk(_, _, _, _, _)
pin_file_walk(root, base_path, st, items, i) ==
  IF i > Len(items) THEN st
  ELSE pin_file_walk(root, base_path, pin_file_entry(root, base_path, st, items[i]), items, i + 1)

pin_file_single_full_path(root, base_path, st) ==
  IF ~IsSome(file_name(base_path)) THEN Panicked(st)
  ELSE IF ~IsSome(to_str(file_name(base_path).val)) THEN Panicked(st)
  ELSE LET name == path_to_str(base_path).val
           bytes == fs_read(root, base_path)
           read == [st EXCEPT !.reads = Append(st.reads, base_path)]
       IN  IF ~IsSome(bytes) THEN Failed(read, "Io")
           ELSE [read EXCEPT !.form = Append(st.form, FilePart(name, bytes.val))]

\* The else branch, lib.rs 212-214: base_path is not a directory.
pin_file_single(root, base_path, st) ==
  IF ~IsSome(file_name(base_path)) THEN Panicked(st)
  ELSE IF ~IsSome(to_str(file_name(base_path).val)) THEN Panicked(st)
  ELSE LET name == to_str(file_name(base_path).val).val
           bytes == fs_read(root, base_path)
           read == [st EXCEPT !.reads = Append(st.reads, base_path)]
       IN  IF ~IsSome(bytes) THEN Failed(read, "Io")
           ELSE [read EXCEPT !.form = Append(st.form, FilePart(name, bytes.val))]

\* The loop over pin_data.files, lib.rs 189-216
RECURSIVE pin_file_files(_, _, _, _)
pin_file_files(root, files, st, i) ==
  IF i > Len(files) \/ st.tag # "Running" THEN st
  ELSE LET base_path == files[i].file_path
           next == IF is_dir(root, base_path)
                   THEN pin_file_walk(root, base_path, st, WalkDir(root, base_path), 1)
                   ELSE pin_file_single(root, base_path, st)
       IN  pin_file_files(root, files, next, i + 1)

\* lib.rs 218-224: the optional text fields
pin_file_texts(pin_data, form) ==
  LET with_metadata ==
        IF IsSome(pin_data.pinata_metadata)
        THEN Append(form, TextPart("pinataMetadata", to_json_string(pin_data.pinata_metadata.val)))
        ELSE form
  IN  IF IsSome(pin_data.pinata_option)
      THEN Append(with_metadata, TextPart("pinataOptions", to_json_string(pin_data.pinata_option.val)))
      ELSE with_metadata

\* pin_file up to send(): the request when the assembly succeeded, with the
\* files read on the way.
pin_file_request(root, pin_data) ==
  LET st == pin_file_files(root, pin_data.files, Running(<<>>, <<>>), 1)
  IN  IF st.tag = "Running"
      THEN [tag |-> "Sent", err |-> "", reads |-> st.reads,
            request |-> Some([method |-> "POST", url |-> api_url("/pinning/pinFileToIPFS"),
                              query |-> <<>>,
                              body |-> Some([multipart |-> pin_file_texts(pin_data, st.form)])])]
      ELSE [tag |-> st.tag, err |-> st.err, reads |-> st.reads, request |-> None]

\* Arguments of PinByFile::new: d, ./d, d/sub, d/a.txt, f.txt, ".", d/..,
\* a path that does not exist, and the empty path.
PathArgs ==
  { <<"d">>, <<".", "d">>, <<"d", "sub">>, <<"d", "a.txt">>, <<"f.txt">>,
    <<".">>, <<"d", "..">>, <<"missing">>, <<>> }

KeyValuesArgs == { <<>>, [k \in {"tag"} |-> "v"] }
NameArgs == { "N" }
OptionsArgs == { [host_nodes |-> None, custom_pin_policy |-> None, cid_version |-> Some(1)] }

PinFileSetMetadata ==
  /\ upload = NotCalled
  /\ \E kv \in KeyValuesArgs : pin_arg' = PinByFile_set_metadata(pin_arg, kv)
  /\ UNCHANGED <<upload, fs, newVars, filterVars, parseVars, callVars, buildVars>>

PinFileSetMetadataWithName ==
  /\ upload = NotCalled
  /\ \E n \in NameArgs, kv \in KeyValuesArgs :
       pin_arg' = PinByFile_set_metadata_with_name(pin_arg, n, kv)
  /\ UNCHANGED <<upload, fs, newVars, filterVars, parseVars, callVars, buildVars>>

PinFileSetOptions ==
  /\ upload = NotCalled
  /\ \E o \in OptionsArgs : pin_arg' = PinByFile_set_options(pin_arg, o)
  /\ UNCHANGED <<upload, fs, newVars, filterVars, parseVars, callVars, buildVars>>

\* pin_file(pin_arg) up to and including send()
PinFile ==
  /\ upload = NotCalled
  /\ upload' = pin_file_request(fs, pin_arg)
  /\ UNCHANGED <<pin_arg, fs, newVars, filterVars, parseVars, callVars, buildVars>>

(***************************************************************************)
(* Responses and the response mapper, lib.rs 275-294                       *)
(***************************************************************************)
\* A sequence of characters as one string
RECURSIVE Concat(_)
Concat(chars) == IF chars = <<>> THEN "" ELSE chars[1] \o Concat(Tail(chars))

\* JSON values
JStr(s) == [j |-> "string", str |-> s]
JNum(n) == [j |-> "number", num |-> n]
JNull == [j |-> "null"]
JArr(items) == [j |-> "array", items |-> items]
JObj(members) == [j |-> "object", members |-> members]

\* A response body: bytes that are no JSON document, a JSON object given by
\* its members, or a body whose bytes never arrive.
NotJson == [json |-> FALSE]
JsonObject(members) == [json |-> TRUE, obj |-> members]
BodyLost == [json |-> FALSE, lost |-> TRUE]

Response(status, body) == [status |-> status, body |-> body]

\* The types derive(Deserialize) is applied to.  A struct lists its fields in
\* declaration order under their names on the wire; an enum of unit variants
\* lists the names of its variants on the wire.
U8_MAX == 255
T_String == [t |-> "String"]
T_u8 == [t |-> "uint", max |-> Some(U8_MAX)]
\* u64 and u128: every number of the model is below their maximum
T_u64 == [t |-> "uint", max |-> None]
T_u128 == [t |-> "uint", max |-> None]
T_Option(inner) == [t |-> "Option", inner |-> inner]
T_Vec(inner) == [t |-> "Vec", inner |-> inner]
T_HashMap(inner) == [t |-> "HashMap", inner |-> inner]
T_Enum(rule, variants) ==
  [t |-> "enum", names |-> { Concat(RenameVariant(rule, v)) : v \in variants }]
T_Struct(rule, fields) ==
  [t |-> "struct",
   fields |-> [i \in 1..Len(fields) |->
                 [name |-> Concat(RenameField(rule, fields[i][1])), type |-> fields[i][2]]]]
\* A type that takes any JSON value
T_Any == [t |-> "any"]

Region_type == T_Enum("none", { <<"F","R","A","1">>, <<"N","Y","C","1">> })
RegionPolicy_type ==
  T_Struct("camelCase",
    << <<<<"i","d">>, Region_type>>,
       <<<<"d","e","s","i","r","e","d","_","r","e","p","l","i","c","a","t","i","o","n","_","c","o","u","n","t">>, T_u8>> >>)
PinPolicy_type ==
  T_Struct("none", << <<<<"r","e","g","i","o","n","s">>, T_Vec(RegionPolicy_type)>> >>)
JobStatus_type == T_Enum(JobStatus_rename_all, JobStatus)
PinByHashResult_type ==
  T_Struct("camelCase",
    << <<<<"i","d">>, T_String>>,
       <<<<"i","p","f","s","_","h","a","s","h">>, T_String>>,
       <<<<"s","t","a","t","u","s">>, JobStatus_type>>,
       <<<<"n","a","m","e">>, T_Option(T_String)>> >>)
PinJob_type ==
  T_Struct("none",
    << <<<<"i","d">>, T_String>>,
       <<<<"i","p","f","s","_","p","i","n","_","h","a","s","h">>, T_String>>,
       <<<<"d","a","t","e","_","q","u","e","u","e","d">>, T_String>>,
       <<<<"s","t","a","t","u","s">>, JobStatus_type>>,
       <<<<"n","a","m","e">>, T_Option(T_String)>>,
       <<<<"k","e","y","v","a","l","u","e","s">>, T_Option(T_HashMap(T_String))>>,
       <<<<"h","o","s","t","_","n","o","d","e","s">>, T_Option(T_Vec(T_String))>>,
       <<<<"p","i","n","_","p","o","l","i","c","y">>, T_Option(PinPolicy_type)>> >>)
PinJobs_type ==
  T_Struct("none",
    << <<<<"c","o","u","n","t">>, T_u64>>,
       <<<<"r","o","w","s">>, T_Vec(PinJob_type)>> >>)
PinnedObject_type ==
  T_Struct("PascalCase",
    << <<<<"i","p","f","s","_","h","a","s","h">>, T_String>>,
       <<<<"p","i","n","_","s","i","z","e">>, T_u64>>,
       <<<<"t","i","m","e","s","t","a","m","p">>, T_String>> >>)
TotalPinnedData_type ==
  T_Struct("none",
    << <<<<"p","i","n","_","c","o","u","n","t">>, T_u128>>,
       <<<<"p","i","n","_","s","i","z","e","_","t","o","t","a","l">>, T_String>>,
       <<<<"p","i","n","_","s","i","z","e","_","w","i","t","h","_","r","e","p","l","i","c","a","t","i","o","n","s","_","t","o","t","a","l">>, T_String>> >>)
\* PinList is declared outside the sources at hand.
PinList_type ==
  T_Struct("none",
    << <<<<"c","o","u","n","t">>, T_u64>>,
       <<<<"r","o","w","s">>, T_Vec(T_Any)>> >>)
\* PinataApiError (api::internal): the service-error envelope and message()
PinataApiError_type ==
  T_Struct("none", << <<<<"m","e","s","s","a","g","e">>, T_String>> >>)
PinataApiError_message(error) == error["message"]

\* serde_json's Deserialize of a JSON value as a type: the value decoded, or
\* None for a value the type does not take.  A struct takes an object holding
\* every field that is no Option (other members are ignored, an Option that is
\* missing or null is None), or an array holding its fields in order; a unit
\* variant is its name as a string, or an object with that one key and null.
RECURSIVE Decode(_, _)
DecodeEach(type, values) == [k \in DOMAIN values |-> Decode(type, values[k])]
DecodeField(field, v) ==
  IF field.name \in DOMAIN v.members THEN Decode(field.type, v.members[field.name])
  ELSE IF field.type.t = "Option" THEN Some(None)
  ELSE None
Decode(type, v) ==
  CASE type.t = "any" -> Some(v)
    [] type.t = "String" -> IF v.j = "string" THEN Some(v.str) ELSE None
    [] type.t = "uint" ->
         IF v.j = "number" /\ v.num >= 0 /\ (IsSome(type.max) => v.num <= type.max.val)
         THEN Some(v.num) ELSE None
    [] type.t = "enum" ->
         IF v.j = "string"
         THEN IF v.str \in type.names THEN Some(v.str) ELSE None
         ELSE IF v.j = "object"
                 /\ \E n \in type.names : DOMAIN v.members = {n} /\ v.members[n].j = "null"
         THEN Some(CHOOSE n \in type.names : DOMAIN v.members = {n})
         ELSE None
    [] type.t = "Option" ->
         IF v.j = "null" THEN Some(None)
         ELSE LET d == Decode(type.inner, v) IN IF IsSome(d) THEN Some(d) ELSE None
    [] type.t = "Vec" ->
         IF v.j = "array"
         THEN LET ds == DecodeEach(type.inner, v.items)
              IN  IF \A k \in DOMAIN ds : IsSome(ds[k])
                  THEN Some([k \in DOMAIN ds |-> ds[k].val]) ELSE None
         ELSE None
    [] type.t = "HashMap" ->
         IF v.j = "object"
         THEN LET ds == DecodeEach(type.inner, v.members)
              IN  IF \A k \in DOMAIN ds : IsSome(ds[k])
                  THEN Some([k \in DOMAIN ds |-> ds[k].val]) ELSE None
         ELSE None
    [] type.t = "struct" ->
         LET n == Len(type.fields)
             ds == IF v.j = "object"
                   THEN Some([i \in 1..n |-> DecodeField(type.fields[i], v)])
                   ELSE IF v.j = "array" /\ Len(v.items) = n
                   THEN Some([i \in 1..n |-> Decode(type.fields[i].type, v.items[i])])
                   ELSE None
         IN  IF IsSome(ds) /\ \A i \in 1..n : IsSome(ds.val[i])
             THEN Some([name \in { type.fields[i].name : i \in 1..n } |->
                          ds.val[CHOOSE i \in 1..n : type.fields[i].name = name].val])
             ELSE None

Ok(v) == [tag |-> "Ok", val |-> v]
GenericError(message) == [tag |-> "Err", err |-> "GenericError", message |-> message]

\* Response::json::<T>(): the body is read to its end, which fails when its
\* bytes do not arrive, and then decoded as T, which fails when it is no JSON
\* text or does not decode as T.
response_json(type, body) ==
  IF "lost" \in DOMAIN body THEN Err("Body")
  ELSE IF ~body.json THEN Err("Decode")
  ELSE LET decoded == Decode(type, JObj(body.obj))
       IN  IF IsSome(decoded) THEN Ok(decoded.val) ELSE Err("Decode")

is_success_no_upper_bound(status) == status >= 200

\* StatusCode::is_success
is_success(status) == 200 <= status /\ status < 300

\* lib.rs 282-283 and 291-292: the failure path both mappers share
parse_error(response) ==
  LET error == response_json(PinataApiError_type, response.body)
  IN  IF error.tag = "Ok" THEN GenericError(PinataApiError_message(error.val))
      ELSE error

\* parse_result falling back to the error envelope when a 2xx body does not
\* decode as the result type
parse_result_envelope_fallback(type, response) ==
  IF is_success(response.status)
  THEN LET decoded == response_json(type, response.body)
       IN  IF decoded.tag = "Ok" THEN decoded ELSE parse_error(response)
  ELSE parse_error(response)

parse_result(type, response) ==
  IF is_success(response.status)
  THEN response_json(type, response.body)
  ELSE parse_error(response)

parse_ok_result(response) ==
  IF is_success(response.status) THEN Ok(<<>>) ELSE parse_error(response)

(***************************************************************************)
(* The public operations, lib.rs 123-273                                   *)
(***************************************************************************)
Unit == [t |-> "unit"]

\* method, path, mapper and result type of each operation
Operations ==
  [ test_authentication |->
      [method |-> "GET", path |-> "/data/testAuthentication",
       mapper |-> "parse_ok_result", type |-> Unit],
    set_hash_pin_policy |->
      [method |-> "PUT", path |-> "/pinning/hashPinPolicy",
       mapper |-> "parse_ok_result", type |-> Unit],
    pin_by_hash |->
      [method |-> "POST", path |-> "/pinning/pinByHash",
       mapper |-> "parse_result", type |-> PinByHashResult_type],
    get_pin_jobs |->
      [method |-> "GET", path |-> "/pinning/pinJobs",
       mapper |-> "parse_result", type |-> PinJobs_type],
    pin_json |->
      [method |-> "POST", path |-> "/pinning/pinJSONToIPFS",
       mapper |-> "parse_result", type |-> PinnedObject_type],
    pin_file |->
      [method |-> "POST", path |-> "/pinning/pinFileToIPFS",
       mapper |-> "parse_result", type |-> PinnedObject_type],
    unpin |->
      [method |-> "DELETE", path |-> "/pinning/unpin/",
       mapper |-> "parse_ok_result", type |-> Unit],
    change_hash_metadata |->
      [method |-> "PUT", path |-> "/pinning/hashMetadata",
       mapper |-> "parse_ok_result", type |-> Unit],
    get_total_user_pinned_data |->
      [method |-> "GET", path |-> "/data/userPinnedDataTotal",
       mapper |-> "parse_result", type |-> TotalPinnedData_type],
    get_pin_list |->
      [method |-> "GET", path |-> "/data/pinList",
       mapper |-> "parse_result", type |-> PinList_type] ]

OpNames == DOMAIN Operations

\* The last statement of every operation: the mapper it delegates to
map_response(op, response) ==
  IF Operations[op].mapper = "parse_ok_result"
  THEN parse_ok_result(response)
  ELSE parse_result(Operations[op].type, response)

\* Statuses around the bounds of the success class
Statuses == {199, 200, 204, 299, 300, 404, 500}

Envelope(message) == JsonObject("message" :> JStr(message))
\* An envelope whose message is no string
EnvelopeBadMessage == JsonObject("message" :> JNum(5))

PinnedObjectBody ==
  JsonObject(("IpfsHash" :> JStr("Qm")) @@ ("PinSize" :> JNum(1))
               @@ ("Timestamp" :> JStr("t")) @@ ("isDuplicate" :> JStr("no")))
PinnedObjectBadSize ==
  JsonObject(("IpfsHash" :> JStr("Qm")) @@ ("PinSize" :> JStr("big"))
               @@ ("Timestamp" :> JStr("t")))
PinByHashResultBody ==
  JsonObject(("id" :> JStr("1")) @@ ("ipfsHash" :> JStr("Qm"))
               @@ ("status" :> JStr("searching")) @@ ("name" :> JNull))
\* status spelled as the variant is declared, not as it is renamed
PinByHashResultBadStatus ==
  JsonObject(("id" :> JStr("1")) @@ ("ipfsHash" :> JStr("Qm"))
               @@ ("status" :> JStr("Searching")))
PinJobRow ==
  JObj(("id" :> JStr("1")) @@ ("ipfs_pin_hash" :> JStr("Qm"))
         @@ ("date_queued" :> JStr("t")) @@ ("status" :> JStr("over_free_limit"))
         @@ ("pin_policy" :>
               JObj("regions" :>
                      JArr(<<JObj(("id" :> JStr("FRA1"))
                                    @@ ("desiredReplicationCount" :> JNum(2)))>>))))
RowsBody == JsonObject(("count" :> JNum(1)) @@ ("rows" :> JArr(<<PinJobRow>>)))
RowsBadRow == JsonObject(("count" :> JNum(1)) @@ ("rows" :> JArr(<<JObj(<<>>)>>)))
TotalPinnedDataBody ==
  JsonObject(("pin_count" :> JNum(1)) @@ ("pin_size_total" :> JStr("10"))
               @@ ("pin_size_with_replications_total" :> JStr("20")))
TotalPinnedDataBadCount ==
  JsonObject(("pin_count" :> JStr("1")) @@ ("pin_size_total" :> JStr("10"))
               @@ ("pin_size_with_replications_total" :> JStr("20")))

Bodies ==
  { NotJson, BodyLost, JsonObject(<<>>), Envelope("m1"), Envelope("m2"), EnvelopeBadMessage,
    PinnedObjectBody, PinnedObjectBadSize, PinByHashResultBody, PinByHashResultBadStatus,
    RowsBody, RowsBadRow, TotalPinnedDataBody, TotalPinnedDataBadCount }

\* The mapper awaits Response::json() unless it is parse_ok_result on a
\* success status (lib.rs 279, 282, 291).
awaits_json(op, response) ==
  Operations[op].mapper = "parse_result" \/ ~is_success(response.status)

Decoding == [tag |-> "Decoding"]

\* The mapper is entered with one response of one operation: it tests the
\* status and returns, or suspends on Response::json().
Parse ==
  /\ pr_out = NotCalled
  /\ pr_out' = IF awaits_json(pr_in.op, pr_in.response) THEN Decoding
               ELSE map_response(pr_in.op, pr_in.response)
  /\ UNCHANGED <<pr_in, fs, newVars, filterVars, pinVars, callVars, buildVars>>

\* Response::json() resolves and the mapper returns.
ParseJson ==
  /\ pr_out = Decoding
  /\ pr_out' = map_response(pr_in.op, pr_in.response)
  /\ UNCHANGED <<pr_in, fs, newVars, filterVars, pinVars, callVars, buildVars>>

(***************************************************************************)
(* Calls on one shared handle.  A call runs to its first await (send()),   *)
(* resumes when the response head arrives, and returns from the mapper.    *)
(***************************************************************************)
NumCallers == 2
Callers == 1..NumCallers

\* The handle every caller shares
TheClient == PinataApi_new(<<"k">>, <<"k", "k">>, TRUE).client

\* The file system of the calls: d holds a.txt and sub/b.txt
CallFs ==
  Dir(TRUE, <<Entry("d", Dir(TRUE, <<Entry("a.txt", File(TRUE, "A")),
                                     Entry("sub", Dir(TRUE, <<Entry("b.txt", File(TRUE, "B"))>>))>>)),
              Entry("f.txt", File(TRUE, "F"))>>)

JsonBody(v) == Some(to_json_string(v))

\* PinListFilter is declared outside the sources at hand.  The filter the
\* callers build sets hash_contains (tests.rs 213-216); a field that is set
\* is one query pair under its camelCase name.
PinListFilter_hash_contains(hash) == [hash_contains |-> Some(hash)]
PinListFilter_query(filters) ==
  IF IsSome(filters.hash_contains)
  THEN <<[name |-> RenameField("camelCase", <<"h","a","s","h","_","c","o","n","t","a","i","n","s">>),
          value |-> filters.hash_contains.val]>>
  ELSE <<>>

\* The arguments each operation is called with
CallArgs(op) ==
  CASE op = "pin_file" -> { PinByFile_new(<<"d">>), PinByFile_new(<<"missing">>) }
    [] op = "get_pin_jobs" -> { set_limit(PinJobsFilter_new, 1) }
    [] op = "unpin" -> { "Qm" }
    [] op = "pin_by_hash" ->
         { [hash_to_pin |-> "Qm", pinata_metadata |-> None, pinata_option |-> None] }
    [] op = "pin_json" ->
         { [pinata_content |-> "content", pinata_metadata |-> None, pinata_option |-> None] }
    [] op = "set_hash_pin_policy" ->
         { [ipfs_pin_hash |-> "Qm", new_pin_policy |-> [regions |-> <<>>]] }
    [] op = "change_hash_metadata" ->
         { [ipfs_pin_hash |-> "Qm", metadata |-> PinMetadata(None, <<>>)] }
    [] op = "get_pin_list" -> { PinListFilter_hash_contains(<<"Q","m">>) }
    [] OTHER -> { None }

\* Everything an operation does before send(): the request it builds, or the
\* error it returns without sending.
prepare(op, arg, root) ==
  IF op = "pin_file" THEN pin_file_request(root, arg)
  ELSE [tag |-> "Sent", err |-> "", reads |-> <<>>,
        request |-> Some(
          CASE op = "get_pin_jobs" -> get_pin_jobs_request(arg)
            [] op = "get_pin_list" ->
                 [method |-> "GET", url |-> api_url("/data/pinList"),
                  query |-> PinListFilter_query(arg), body |-> None]
            [] op = "unpin" -> [method |-> "DELETE", url |-> api_url("/pinning/unpin/" \o arg),
                                query |-> <<>>, body |-> None]
            [] op \in {"pin_by_hash", "pin_json", "set_hash_pin_policy", "change_hash_metadata"} ->
                 [method |-> Operations[op].method, url |-> api_url(Operations[op].path),
                  query |-> <<>>, body |-> JsonBody(arg)]
            [] OTHER -> [method |-> Operations[op].method, url |-> api_url(Operations[op].path),
                         query |-> <<>>, body |-> None])]

Idle == [op |-> "none"]

\* The responses the service gives an operation
OkBody(op) ==
  CASE op = "pin_by_hash" -> PinByHashResultBody
    [] op \in {"pin_json", "pin_file"} -> PinnedObjectBody
    [] op \in {"get_pin_jobs", "get_pin_list"} -> RowsBody
    [] op = "get_total_user_pinned_data" -> TotalPinnedDataBody
    [] OTHER -> JsonObject(<<>>)
ResponsesFor(op) ==
  { Response(200, OkBody(op)) }
    \cup (IF Operations[op].mapper = "parse_result"
          THEN { Response(500, BodyLost) }
          ELSE { Response(404, Envelope("m1")) })

\* One request of call c in flight, with the headers the client attaches
InFlight(c, n, request) ==
  [from |-> c, n |-> n, headers |-> client.default_headers, request |-> request]

\* A caller invokes an operation: it runs up to send().await, or returns
\* the error of the upload assembly.
Call(c) ==
  /\ pc[c] = "idle"
  /\ \E op \in OpNames : \E arg \in CallArgs(op) :
       LET p == prepare(op, arg, fs)
       IN  /\ call' = [call EXCEPT ![c] = [op |-> op]]
           /\ IF p.tag = "Sent"
              THEN /\ sends' = [sends EXCEPT ![c] = @ + 1]
                   /\ wire' = wire \cup {InFlight(c, sends[c] + 1, p.request.val)}
                   /\ pc' = [pc EXCEPT ![c] = "sent"]
                   /\ UNCHANGED result
              ELSE /\ result' = [result EXCEPT ![c] = [tag |-> p.tag, err |-> p.err]]
                   /\ pc' = [pc EXCEPT ![c] = "done"]
                   /\ UNCHANGED <<sends, wire>>
  /\ UNCHANGED <<client, resp, served, fs, newVars, filterVars, pinVars, parseVars, buildVars>>

TransportError_retry(c) ==
  /\ pc[c] = "sent"
  /\ sends[c] <= 1
  /\ \E r \in wire :
       /\ r.from = c
       /\ wire' = wire \cup {InFlight(c, sends[c] + 1, r.request)}
  /\ sends' = [sends EXCEPT ![c] = @ + 1]
  /\ UNCHANGED <<client, pc, result, call, resp, served, fs, newVars, filterVars, pinVars, parseVars, buildVars>>

\* send().await? fails: the call returns the transport error.
TransportError(c) ==
  /\ pc[c] = "sent"
  /\ \E r \in wire :
       /\ r.from = c
       /\ wire' = wire \ {r}
  /\ result' = [result EXCEPT ![c] = Err("Transport")]
  /\ pc' = [pc EXCEPT ![c] = "done"]
  /\ UNCHANGED <<client, sends, call, resp, served, fs, newVars, filterVars, pinVars, parseVars, buildVars>>

\* The service answers one request; send() of the call that sent it resolves
\* to that response.
Respond ==
  \E r \in wire : \E response \in ResponsesFor(call[r.from].op) :
    /\ pc[r.from] = "sent"
    /\ wire' = wire \ {r}
    /\ served' = [served EXCEPT ![r.from] = Some(response)]
    /\ resp' = [resp EXCEPT ![r.from] = Some(response)]
    /\ pc' = [pc EXCEPT ![r.from] = "responded"]
    /\ UNCHANGED <<client, sends, call, result, fs, newVars, filterVars, pinVars, parseVars, buildVars>>

response_of_any_call(c) ==
  resp[CHOOSE d \in Callers : pc[d] \in {"responded", "decoding"}].val

\* The response bound to the local variable of call c (let response = ...)
response_of(c) == resp[c].val

\* The call hands its response to the mapper, which tests the status and
\* returns, or suspends on Response::json().
MapResponse(c) ==
  /\ pc[c] = "responded"
  /\ IF awaits_json(call[c].op, response_of(c))
     THEN pc' = [pc EXCEPT ![c] = "decoding"] /\ UNCHANGED result
     ELSE /\ result' = [result EXCEPT ![c] = map_response(call[c].op, response_of(c))]
          /\ pc' = [pc EXCEPT ![c] = "done"]
  /\ UNCHANGED <<client, sends, wire, call, resp, served, fs, newVars, filterVars, pinVars, parseVars, buildVars>>

\* Response::json() of the call resolves, with the body or with the error of
\* reading it, and the mapper returns.
JsonResolves(c) ==
  /\ pc[c] = "decoding"
  /\ result' = [result EXCEPT ![c] = map_response(call[c].op, response_of(c))]
  /\ pc' = [pc EXCEPT ![c] = "done"]
  /\ UNCHANGED <<client, sends, wire, call, resp, served, fs, newVars, filterVars, pinVars, parseVars, buildVars>>

\* The caller takes the result; the call and everything it owned is dropped.
Return(c) ==
  /\ pc[c] = "done"
  /\ pc' = [pc EXCEPT ![c] = "idle"]
  /\ call' = [call EXCEPT ![c] = Idle]
  /\ sends' = [sends EXCEPT ![c] = 0]
  /\ resp' = [resp EXCEPT ![c] = None]
  /\ served' = [served EXCEPT ![c] = None]
  /\ result' = [result EXCEPT ![c] = NotCalled]
  /\ UNCHANGED <<client, wire, fs, newVars, filterVars, pinVars, parseVars, buildVars>>

(***************************************************************************)
(* data.rs: the chained setters of PinByHash and PinByJson, and a request  *)
(* built by chaining them                                                  *)
(***************************************************************************)
\* The longest chain of setter calls on one request object
MaxSetterCalls == 3

\* The variants of MetadataValue the callers build (tests.rs 187-203)
MetadataValue_String(s) == [variant |-> "String", val |-> s]
MetadataValue_Float(x) == [variant |-> "Float", val |-> x]
MetadataValue_Delete == [variant |-> "Delete"]

PinByHash_new(hash) ==
  [hash_to_pin |-> hash, pinata_metadata |-> None, pinata_option |-> None]

\* The struct literal of set_metadata with the options left out
PinByHash_set_metadata_drops_options(self, keyvalues) ==
  [hash_to_pin |-> self.hash_to_pin,
   pinata_metadata |-> Some(PinMetadata(None, keyvalues)),
   pinata_option |-> None]

PinByHash_set_metadata(self, keyvalues) ==
  [hash_to_pin |-> self.hash_to_pin,
   pinata_metadata |-> Some(PinMetadata(None, keyvalues)),
   pinata_option |-> self.pinata_option]

PinByHash_set_metadata_with_name(self, name, keyvalues) ==
  [hash_to_pin |-> self.hash_to_pin,
   pinata_metadata |-> Some(PinMetadata(Some(name), keyvalues)),
   pinata_option |-> self.pinata_option]

PinByHash_set_options(self, options) ==
  [hash_to_pin |-> self.hash_to_pin,
   pinata_metadata |-> self.pinata_metadata,
   pinata_option |-> Some(options)]

PinByJson_new(json_data) ==
  [pinata_content |-> json_data, pinata_metadata |-> None, pinata_option |-> None]

PinByJson_set_metadata(self, keyvalues) ==
  [self EXCEPT !.pinata_metadata = Some(PinMetadata(None, keyvalues))]

PinByJson_set_metadata_with_name(self, name, keyvalues) ==
  [self EXCEPT !.pinata_metadata = Some(PinMetadata(Some(name), keyvalues))]

PinByJson_set_options(self, options) ==
  [self EXCEPT !.pinata_option = Some(options)]

\* The three request types and the operation that takes each
Kinds == {"PinByHash", "PinByJson", "PinByFile"}
PinOp(kind) ==
  CASE kind = "PinByHash" -> "pin_by_hash"
    [] kind = "PinByJson" -> "pin_json"
    [] kind = "PinByFile" -> "pin_file"

\* The field holding what is to be pinned
TargetField(kind) ==
  CASE kind = "PinByHash" -> "hash_to_pin"
    [] kind = "PinByJson" -> "pinata_content"
    [] kind = "PinByFile" -> "files"

\* Arguments of the constructors and setters
NewArgs(kind) ==
  CASE kind = "PinByHash" -> { "Qm", "Qn" }
    [] kind = "PinByJson" -> { "content", "other" }
    [] kind = "PinByFile" -> { <<"f.txt">>, <<"d">> }
BuilderKeyValues ==
  { <<>>,
    [k \in {"tag"} |-> MetadataValue_String("v")],
    [k \in {"rate"} |-> MetadataValue_Float("5.5")],
    [k \in {"tag"} |-> MetadataValue_Delete] }
BuilderOptions ==
  OptionsArgs \cup { [host_nodes |-> None, custom_pin_policy |-> None, cid_version |-> Some(0)] }

Builder_new(kind, x) ==
  [kind |-> kind,
   obj |-> CASE kind = "PinByHash" -> PinByHash_new(x)
             [] kind = "PinByJson" -> PinByJson_new(x)
             [] kind = "PinByFile" -> PinByFile_new(x)]

Builder_set_metadata(b, keyvalues) ==
  [b EXCEPT !.obj =
     CASE b.kind = "PinByHash" -> PinByHash_set_metadata(@, keyvalues)
       [] b.kind = "PinByJson" -> PinByJson_set_metadata(@, keyvalues)
       [] b.kind = "PinByFile" -> PinByFile_set_metadata(@, keyvalues)]

Builder_set_metadata_with_name(b, name, keyvalues) ==
  [b EXCEPT !.obj =
     CASE b.kind = "PinByHash" -> PinByHash_set_metadata_with_name(@, name, keyvalues)
       [] b.kind = "PinByJson" -> PinByJson_set_metadata_with_name(@, name, keyvalues)
       [] b.kind = "PinByFile" -> PinByFile_set_metadata_with_name(@, name, keyvalues)]

Builder_set_options(b, options) ==
  [b EXCEPT !.obj =
     CASE b.kind = "PinByHash" -> PinByHash_set_options(@, options)
       [] b.kind = "PinByJson" -> PinByJson_set_options(@, options)
       [] b.kind = "PinByFile" -> PinByFile_set_options(@, options)]

\* A setter consumes the object and returns the next one; it can be chained
\* until the object is handed to its pin operation.  calls starts with the
\* call of new.
NewCall(x) == [setter |-> "new", arg |-> x]
CanChain == ~IsSome(built) /\ Len(calls) <= MaxSetterCalls

BuilderNew ==
  /\ IsSome(built)
  /\ \E kind \in Kinds : \E x \in NewArgs(kind) :
       /\ builder' = Builder_new(kind, x)
       /\ calls' = <<NewCall(x)>>
  /\ built' = None
  /\ UNCHANGED <<fs, newVars, filterVars, pinVars, parseVars, callVars>>

BuilderSetMetadata ==
  /\ CanChain
  /\ \E kv \in BuilderKeyValues :
       /\ builder' = Builder_set_metadata(builder, kv)
       /\ calls' = Append(calls, [setter |-> "set_metadata", keyvalues |-> kv])
  /\ UNCHANGED <<built, fs, newVars, filterVars, pinVars, parseVars, callVars>>

BuilderSetMetadataWithName ==
  /\ CanChain
  /\ \E n \in NameArgs : \E kv \in BuilderKeyValues :
       /\ builder' = Builder_set_metadata_with_name(builder, n, kv)
       /\ calls' = Append(calls, [setter |-> "set_metadata_with_name",
                                  name |-> n, keyvalues |-> kv])
  /\ UNCHANGED <<built, fs, newVars, filterVars, pinVars, parseVars, callVars>>

BuilderSetOptions ==
  /\ CanChain
  /\ \E o \in BuilderOptions :
       /\ builder' = Builder_set_options(builder, o)
       /\ calls' = Append(calls, [setter |-> "set_options", options |-> o])
  /\ UNCHANGED <<built, fs, newVars, filterVars, pinVars, parseVars, callVars>>

\* pin_by_hash / pin_json / pin_file take the object and build the request
BuilderPin ==
  /\ ~IsSome(built)
  /\ built' = Some(prepare(PinOp(builder.kind), builder.obj, fs))
  /\ UNCHANGED <<builder, calls, fs, newVars, filterVars, pinVars, parseVars, callVars>>

(***************************************************************************)
(* Initial states and specifications                                       *)
(***************************************************************************)
NewIdle == new_in = [api_key |-> <<"k">>, secret_api_key |-> <<"k">>] /\ new_out = NotCalled
FilterIdle == filter = PinJobsFilter_new /\ jobs_req = None
PinIdle == pin_arg = PinByFile_new(<<"d">>) /\ upload = NotCalled
ParseIdle ==
  /\ pr_in = [op |-> "test_authentication", response |-> Response(200, NotJson)]
  /\ pr_out = NotCalled
CallIdle ==
  /\ client = TheClient
  /\ pc = [c \in Callers |-> "idle"]
  /\ call = [c \in Callers |-> Idle]
  /\ sends = [c \in Callers |-> 0]
  /\ wire = {}
  /\ resp = [c \in Callers |-> None]
  /\ served = [c \in Callers |-> None]
  /\ result = [c \in Callers |-> NotCalled]
BuildIdle ==
  /\ builder = Builder_new("PinByHash", "Qm")
  /\ calls = <<NewCall("Qm")>>
  /\ built = None

InitNew ==
  /\ new_in \in [api_key : KeyStrings, secret_api_key : KeyStrings]
  /\ new_out = NotCalled
  /\ fs = CallFs /\ FilterIdle /\ PinIdle /\ ParseIdle /\ CallIdle /\ BuildIdle
NextNew == New
SpecNew == InitNew /\ [][NextNew]_vars

InitFilter == NewIdle /\ fs = CallFs /\ FilterIdle /\ PinIdle /\ ParseIdle /\ CallIdle /\ BuildIdle
NextFilter ==
  \/ SetSort \/ SetStatus \/ SetIpfsPinHash \/ SetLimit \/ SetOffset
  \/ GetPinJobs \/ NewFilter
SpecFilter == InitFilter /\ [][NextFilter]_vars

InitPinFile ==
  /\ fs \in FileSystems
  /\ \E path \in PathArgs : pin_arg = PinByFile_new(path)
  /\ upload = NotCalled
  /\ NewIdle /\ FilterIdle /\ ParseIdle /\ CallIdle /\ BuildIdle
NextPinFile ==
  \/ PinFileSetMetadata \/ PinFileSetMetadataWithName \/ PinFileSetOptions
  \/ PinFile
SpecPinFile == InitPinFile /\ [][NextPinFile]_vars

InitParse ==
  /\ pr_in \in [op : OpNames, response : {Response(st, b) : st \in Statuses, b \in Bodies}]
  /\ pr_out = NotCalled
  /\ fs = CallFs /\ NewIdle /\ FilterIdle /\ PinIdle /\ CallIdle /\ BuildIdle
NextParse == Parse \/ ParseJson
SpecParse == InitParse /\ [][NextParse]_vars

InitCall == fs = CallFs /\ NewIdle /\ FilterIdle /\ PinIdle /\ ParseIdle /\ CallIdle /\ BuildIdle
NextCall ==
  \/ \E c \in Callers : Call(c)
  \/ \E c \in Callers : TransportError(c)
  \/ Respond
  \/ \E c \in Callers : MapResponse(c)
  \/ \E c \in Callers : JsonResolves(c)
  \/ \E c \in Callers : Return(c)
SpecCall == InitCall /\ [][NextCall]_vars

InitBuilder ==
  /\ \E kind \in Kinds : \E x \in NewArgs(kind) :
       /\ builder = Builder_new(kind, x)
       /\ calls = <<NewCall(x)>>
  /\ built = None
  /\ fs = CallFs /\ NewIdle /\ FilterIdle /\ PinIdle /\ ParseIdle /\ CallIdle
NextBuilder ==
  \/ BuilderNew
  \/ BuilderSetMetadata \/ BuilderSetMetadataWithName \/ BuilderSetOptions
  \/ BuilderPin
SpecBuilder == InitBuilder /\ [][NextBuilder]_vars

(***************************************************************************)
(* Properties                                                              *)
(***************************************************************************)
NewCalled == new_out # NotCalled

\* C1: PinataApi::new never returns a client when the api key or the secret
\* api key is empty: the result is the error InvalidApiKey or
\* InvalidSecretApiKey, and no client is built.
C1_EmptyKeyIsRejected ==
  (NewCalled /\ (new_in.api_key = <<>> \/ new_in.secret_api_key = <<>>))
    => /\ new_out.tag = "Err"
       /\ new_out.err \in {"InvalidApiKey", "InvalidSecretApiKey"}
       /\ "client" \notin DOMAIN new_out

\* new was called with a key and an empty secret, and refused it.
C1_Witness ==
  /\ NewCalled
  /\ new_in.api_key = <<"k">> /\ new_in.secret_api_key = <<>>
  /\ new_out = Err("InvalidSecretApiKey")

Mapped == pr_out.tag \notin {"NotCalled", "Decoding"}
NotSuccessStatus == pr_in.response.status < 200 \/ pr_in.response.status > 299
BodyRead == "lost" \notin DOMAIN pr_in.response.body
HasMessage ==
  /\ BodyRead
  /\ pr_in.response.body.json
  /\ "message" \in DOMAIN pr_in.response.body.obj
  /\ pr_in.response.body.obj["message"].j = "string"

\* C2 as stated: for every operation and every response whose status is not
\* 2xx the call returns GenericError carrying the message decoded from the
\* body, and never a success.
C2_NonSuccessIsGenericError ==
  (Mapped /\ NotSuccessStatus)
    => /\ pr_out.tag = "Err"
       /\ pr_out.err = "GenericError"

\* C2 amended: for every operation and every response whose status is not 2xx
\* the call never returns a success; it returns GenericError carrying the
\* decoded message when the body decodes as the error envelope, the decoding
\* error when it does not, and the error of reading the body when the body
\* does not arrive.
C2_NonSuccessIsError ==
  (Mapped /\ NotSuccessStatus)
    => /\ pr_out.tag = "Err"
       /\ HasMessage => pr_out = GenericError(pr_in.response.body.obj["message"].str)
       /\ (BodyRead /\ ~HasMessage) => pr_out = Err("Decode")
       /\ ~BodyRead => pr_out = Err("Body")

\* pin_file got a 300 with the envelope {message: m2} and returned GenericError(m2).
C2_Witness ==
  /\ Mapped
  /\ pr_in.op = "pin_file"
  /\ pr_in.response = Response(300, Envelope("m2"))
  /\ pr_out = GenericError("m2")

(***************************************************************************)
(* pin_file                                                                *)
(***************************************************************************)
Uploaded == upload # NotCalled
BasePath == pin_arg.files[1].file_path
BaseNode == Resolve(fs, BasePath)
Form == upload.request.val.body.val.multipart
FileParts(form) == SelectSeq(form, LAMBDA part : IsSome(part.file_name))

NamesReadableFile ==
  IsSome(BaseNode) /\ BaseNode.val.kind = "file" /\ BaseNode.val.readable

\* C3 as stated: for a path naming a single readable file the multipart body
\* holds exactly one file part, whose field name is the file's base name.
C3_FieldNameIsBaseName ==
  (Uploaded /\ NamesReadableFile)
    => /\ upload.tag = "Sent"
       /\ Len(FileParts(Form)) = 1
       /\ FileParts(Form)[1].name = BasePath[Len(BasePath)]

\* C3 amended: for a path naming a single readable file the multipart body
\* holds exactly one file part; its field name is "file" and its file name
\* is the file's base name (the last component of the path); the part
\* carries the file's bytes.
C3_FileNameIsBaseName ==
  (Uploaded /\ NamesReadableFile)
    => /\ upload.tag = "Sent"
       /\ Len(FileParts(Form)) = 1
       /\ FileParts(Form)[1].name = "file"
       /\ FileParts(Form)[1].file_name = Some(BasePath[Len(BasePath)])
       /\ FileParts(Form)[1].value = BaseNode.val.bytes

\* d/a.txt was uploaded as the one part named a.txt.
C3_Witness ==
  /\ Uploaded /\ upload.tag = "Sent"
  /\ BasePath = <<"d", "a.txt">>
  /\ FileParts(Form) = <<FilePart("a.txt", "A")>>

\* The files below a directory, each by its path relative to the directory
RECURSIVE FilesUnder(_)
FilesUnder(node) ==
  IF node.kind # "dir" THEN {}
  ELSE UNION { IF node.entries[i].node.kind = "file"
               THEN {<<node.entries[i].name>>}
               ELSE {<<node.entries[i].name>> \o r : r \in FilesUnder(node.entries[i].node)}
               : i \in 1..Len(node.entries) }

RECURSIVE FilesReadable(_)
FilesReadable(node) ==
  /\ node.readable
  /\ node.kind = "dir" => \A i \in 1..Len(node.entries) : FilesReadable(node.entries[i].node)

RECURSIVE Slashed(_)
Slashed(path) == IF Len(path) = 1 THEN path[1] ELSE path[1] \o "/" \o Slashed(Tail(path))

FileAt(node, path) == ResolveFrom(<<node>>, path, 1).val

\* A directory with a base name, in which everything can be read and every
\* name is valid UTF-8
NamesReadableDir ==
  /\ IsSome(BaseNode) /\ BaseNode.val.kind = "dir"
  /\ IsNormal(BasePath[Len(BasePath)])
  /\ FilesReadable(BaseNode.val)
  /\ \A r \in FilesUnder(BaseNode.val) : \A i \in 1..Len(r) : r[i] # NonUtf8Name

\* C4 as stated: for a directory with base name d the body holds exactly one
\* part for every non-directory entry under it, the part of the entry at
\* relative path r has the field name d/r, and no part stands for a directory.
C4_FieldNameIsRelativePath ==
  (Uploaded /\ NamesReadableDir)
    => /\ upload.tag = "Sent"
       /\ Len(FileParts(Form)) = Cardinality(FilesUnder(BaseNode.val))
       /\ { FileParts(Form)[i].name : i \in 1..Len(FileParts(Form)) }
            = { BasePath[Len(BasePath)] \o "/" \o Slashed(r) : r \in FilesUnder(BaseNode.val) }

\* C4 amended: for a directory with base name d the body holds exactly one
\* file part for every non-directory entry under it; every such part has the
\* field name "file", the part of the entry at relative path r has the file
\* name d/r and carries that entry's bytes, and no part stands for the
\* directory itself or a sub-directory.
C4_FileNameIsRelativePath ==
  (Uploaded /\ NamesReadableDir)
    => /\ upload.tag = "Sent"
       /\ Len(FileParts(Form)) = Cardinality(FilesUnder(BaseNode.val))
       /\ \A i \in 1..Len(FileParts(Form)) : FileParts(Form)[i].name = "file"
       /\ { <<FileParts(Form)[i].file_name.val, FileParts(Form)[i].value>>
              : i \in 1..Len(FileParts(Form)) }
            = { <<BasePath[Len(BasePath)] \o "/" \o Slashed(r), FileAt(BaseNode.val, r).bytes>>
                  : r \in FilesUnder(BaseNode.val) }

\* d holding a.txt and sub/b.txt was uploaded as the parts d/a.txt and d/sub/b.txt.
C4_Witness ==
  /\ Uploaded /\ upload.tag = "Sent"
  /\ BasePath = <<"d">>
  /\ FileParts(Form) = <<FilePart("d/a.txt", "A"), FilePart("d/sub/b.txt", "B")>>

\* C5 as stated: in every multipart request of pin_file the field names of
\* the file parts are pairwise distinct.
C5_FieldNamesDistinct ==
  (Uploaded /\ upload.tag = "Sent")
    => \A i, j \in 1..Len(FileParts(Form)) :
         i # j => FileParts(Form)[i].name # FileParts(Form)[j].name

\* C5 amended: in every multipart request of pin_file the file names of the
\* file parts are pairwise distinct (their field names are all "file").
C5_FileNamesDistinct ==
  (Uploaded /\ upload.tag = "Sent")
    => \A i, j \in 1..Len(FileParts(Form)) :
         i # j => FileParts(Form)[i].file_name # FileParts(Form)[j].file_name

\* A request holding a.txt of d and a.txt of d/sub.
C5_Witness ==
  /\ Uploaded /\ upload.tag = "Sent"
  /\ Len(FileParts(Form)) = 2
  /\ { FileParts(Form)[i].file_name.val : i \in 1..2 } = {"d/a.txt", "d/sub/a.txt"}

(***************************************************************************)
(* get_pin_jobs                                                            *)
(***************************************************************************)
FilterFields == {"sort", "status", "ipfs_pin_hash", "limit", "offset"}
ParamOf ==
  [sort |-> <<"s","o","r","t">>,
   status |-> <<"s","t","a","t","u","s">>,
   ipfs_pin_hash |-> <<"i","p","f","s","_","p","i","n","_","h","a","s","h">>,
   limit |-> <<"l","i","m","i","t">>,
   offset |-> <<"o","f","f","s","e","t">>]
JobsSent == jobs_req # None
JobsQuery == jobs_req.val.query

C6_QueryMatchesFilter ==
  JobsSent =>
    /\ Len(JobsQuery) = Cardinality({fld \in FilterFields : IsSome(filter[fld])})
    /\ \A fld \in FilterFields :
         Cardinality({i \in 1..Len(JobsQuery) : JobsQuery[i].name = ParamOf[fld]})
           = IF IsSome(filter[fld]) THEN 1 ELSE 0

C6_SetterChangesOneField ==
  (~JobsSent /\ jobs_req' = None)
    => Cardinality({fld \in FilterFields : filter'[fld] # filter[fld]}) <= 1

\* C6: a filter with no field set sends no query parameter; for every subset
\* of the five fields set through the setters the request carries exactly one
\* parameter per set field and none for an unset one, and a setter changes
\* the field it names and no other.
C6_OneParameterPerSetField ==
  [](C6_QueryMatchesFilter) /\ [][C6_SetterChangesOneField]_vars

\* A filter with sort and limit set, sent as sort=ASC&limit=65535.
C6_Witness ==
  /\ JobsSent
  /\ filter = set_limit(set_sort(PinJobsFilter_new, ASC), 65535)
  /\ JobsQuery = << [name |-> <<"s","o","r","t">>, value |-> <<"A","S","C">>],
                    [name |-> <<"l","i","m","i","t">>, value |-> <<"6","5","5","3","5">>] >>

IsCamelCase(name) ==
  /\ Len(name) > 0 /\ IsLower(name[1])
  /\ \A k \in 1..Len(name) : name[k] # "_"

\* C7 as stated: every query parameter name get_pin_jobs puts on the wire is
\* in camelCase; the parameter of the pin-hash filter holds no underscore.
C7_ParameterNamesCamelCase ==
  JobsSent => \A i \in 1..Len(JobsQuery) : IsCamelCase(JobsQuery[i].name)

\* C7 amended: every query parameter name get_pin_jobs puts on the wire is
\* the name of the PinJobsFilter field as declared: sort, status, limit,
\* offset, and ipfs_pin_hash (snake_case, with underscores) for the pin-hash
\* filter.
C7_ParameterNamesAsDeclared ==
  JobsSent =>
    /\ \A i \in 1..Len(JobsQuery) : \E fld \in FilterFields : JobsQuery[i].name = ParamOf[fld]
    /\ IsSome(filter.ipfs_pin_hash) =>
         \E i \in 1..Len(JobsQuery) :
           /\ JobsQuery[i].name = <<"i","p","f","s","_","p","i","n","_","h","a","s","h">>
           /\ JobsQuery[i].value = filter.ipfs_pin_hash.val

\* A request carrying status=over_free_limit&ipfs_pin_hash=Qm.
C7_Witness ==
  /\ JobsSent
  /\ JobsQuery = << [name |-> <<"s","t","a","t","u","s">>,
                     value |-> <<"o","v","e","r","_","f","r","e","e","_","l","i","m","i","t">>],
                    [name |-> <<"i","p","f","s","_","p","i","n","_","h","a","s","h">>,
                     value |-> <<"Q","m">>] >>

(***************************************************************************)
(* Calls                                                                   *)
(***************************************************************************)
RequestsOf(c) == {r \in wire : r.from = c}

\* C8: every call issues at most one request: a call waiting in send() has
\* exactly one outstanding, and a call that holds its response or its result
\* (a success, or a transport, status or decoding error) has none and has
\* sent no second one.
C8_AtMostOneRequest ==
  \A c \in Callers :
    /\ sends[c] <= 1
    /\ Cardinality(RequestsOf(c)) <= 1
    /\ pc[c] = "sent" => Cardinality(RequestsOf(c)) = 1 /\ sends[c] = 1
    /\ pc[c] \in {"responded", "decoding", "done"} => RequestsOf(c) = {}
    /\ pc[c] = "idle" => sends[c] = 0

\* One call ended in a transport error and another in a service error, each
\* after a single request.
C8_Witness ==
  /\ pc[1] = "done" /\ result[1] = Err("Transport") /\ sends[1] = 1
  /\ pc[2] = "done" /\ result[2] = GenericError("m1") /\ sends[2] = 1

OnlyOneCallMoves ==
  \A c, d \in Callers :
    (c # d /\ pc'[c] # pc[c]) =>
       /\ pc'[d] = pc[d] /\ call'[d] = call[d] /\ resp'[d] = resp[d]
       /\ result'[d] = result[d] /\ sends'[d] = sends[d]
       /\ RequestsOf(d)' = RequestsOf(d)

\* C10: calls made concurrently on one handle do not interfere: the client's
\* headers never change, every request carries them, a step of one call
\* leaves every other call as it was, and each call returns what the mapper
\* gives for its own operation and the response served to its own request.
C10_CallsDoNotInterfere ==
  /\ [][client' = client /\ OnlyOneCallMoves]_vars
  /\ [](\A r \in wire : r.headers = TheClient.default_headers)
  /\ [](\A c \in Callers :
          (pc[c] = "done" /\ IsSome(served[c]))
             => result[c] = map_response(call[c].op, served[c].val))

\* Two calls in progress at once, served different responses; the first has
\* returned its own result while the second still holds its response.
C10_Witness ==
  /\ pc[1] = "done" /\ pc[2] = "responded"
  /\ call[1].op = "pin_file" /\ call[2].op = "unpin"
  /\ served[1] = Some(Response(200, OkBody("pin_file")))
  /\ served[2] = Some(Response(404, Envelope("m1")))
  /\ result[1].tag = "Ok"

(***************************************************************************)
(* pin_file: the first failure                                             *)
(***************************************************************************)
\* What the call meets in order: the items of the walk, or the one path
Items == IF is_dir(fs, BasePath) THEN WalkDir(fs, BasePath) ELSE <<WalkOk(BasePath)>>

IsFileItem(item) == item.ok /\ ~is_dir(fs, item.path)
\* A failure: an entry that cannot be walked, or a file that cannot be read
Fails(item) ==
  \/ ~item.ok
  \/ IsFileItem(item) /\ ~IsSome(fs_read(fs, item.path))
\* A file whose part name cannot be formed (no base name, or not UTF-8)
Unnamable(item) ==
  /\ IsFileItem(item)
  /\ \/ ~IsSome(file_name(BasePath))
     \/ \E k \in (Len(BasePath) + 1)..Len(item.path) : item.path[k] = NonUtf8Name
FilePathsUpTo(items, n) ==
  LET files == SelectSeq(SubSeq(items, 1, n), IsFileItem)
  IN  [j \in 1..Len(files) |-> files[j].path]

\* C9: files are read one after another in walk order; the first failure
\* ends the call with that error, so that the files read are those up to the
\* failure and no later one, and no request is sent; a request is sent only
\* when every file has been read and has its part.
C9_FirstFailureEndsTheCall ==
  Uploaded =>
    LET items == Items
        failing == {i \in 1..Len(items) : Fails(items[i])}
        first == CHOOSE i \in failing : \A j \in failing : i <= j
    IN  /\ upload.tag # "Sent" => upload.request = None
        /\ upload.tag = "Sent" =>
             /\ failing = {}
             /\ upload.reads = FilePathsUpTo(items, Len(items))
             /\ Len(FileParts(Form)) = Len(upload.reads)
        /\ (failing # {} /\ \A j \in 1..first : ~Unnamable(items[j])) =>
             /\ upload.tag = "Err"
             /\ upload.err = IF items[first].ok THEN "Io" ELSE "WalkDir"
             /\ upload.reads = FilePathsUpTo(items, first)
             /\ upload.request = None

\* d/sub/b.txt was read, d/sub/a.txt could not be read, and d/a.txt after it
\* was never read; nothing was sent.
C9_Witness ==
  /\ Uploaded
  /\ upload.tag = "Err" /\ upload.err = "Io"
  /\ upload.reads = << <<"d", "sub", "b.txt">>, <<"d", "sub", "a.txt">> >>
  /\ IsSome(fs_read(fs, <<"d", "a.txt">>))
  /\ upload.request = None

(***************************************************************************)
(* PinataApi::new: the documented panic                                    *)
(***************************************************************************)
\* Empty, or made of white space only
IsBlank(s) == \A i \in 1..Len(s) : s[i] \in {" ", "\t", "\n"}

\* C11: PinataApi::new panics when api_key or secret_api_key is empty or
\* blank (white space only).
C11_EmptyOrBlankPanics ==
  (NewCalled /\ (IsBlank(new_in.api_key) \/ IsBlank(new_in.secret_api_key)))
    => new_out.tag = "Panic"

(***************************************************************************)
(* The pin requests built by chained setters                               *)
(***************************************************************************)
Request == builder.obj
SetterIs(i, setter) == calls[i].setter = setter

\* C12: for PinByHash, PinByJson and PinByFile, set_metadata_with_name(n, kv1)
\* followed by set_metadata(kv2) leaves a request that carries the key/values
\* kv2 and still carries the name n.
C12_NameSurvivesSetMetadata ==
  \A i \in 1..Len(calls) :
    (/\ i + 1 = Len(calls)
     /\ SetterIs(i, "set_metadata_with_name")
     /\ SetterIs(i + 1, "set_metadata"))
      => /\ IsSome(Request.pinata_metadata)
         /\ Request.pinata_metadata.val.keyvalues = calls[i + 1].keyvalues
         /\ Request.pinata_metadata.val.name = Some(calls[i].name)

\* The metadata a built request carries: the pinataMetadata member of a JSON
\* body, or the pinataMetadata text fields of a multipart body
Pinned == IsSome(built) /\ built.val.tag = "Sent"
SentBody == built.val.request.val.body.val
SentMetadata ==
  IF "json" \in DOMAIN SentBody
  THEN IF IsSome(SentBody.json.pinata_metadata)
       THEN { SentBody.json.pinata_metadata.val } ELSE {}
  ELSE { SentBody.multipart[i].value.json :
           i \in { j \in 1..Len(SentBody.multipart) :
                     SentBody.multipart[j].name = "pinataMetadata" } }
HasDeleteMarker(metadata) ==
  \E k \in DOMAIN metadata.keyvalues : metadata.keyvalues[k] = MetadataValue_Delete

\* C13: no request body produced by pin_by_hash, pin_json or pin_file, for
\* any key/values given to set_metadata or set_metadata_with_name, contains
\* a deletion marker (MetadataValue::Delete).
C13_NoDeleteMarkerInCreation ==
  Pinned => \A metadata \in SentMetadata : ~HasDeleteMarker(metadata)

(***************************************************************************)
(* The response mapper: its two paths                                      *)
(***************************************************************************)
TypedOps ==
  { "pin_by_hash", "get_pin_jobs", "pin_json", "pin_file",
    "get_total_user_pinned_data", "get_pin_list" }
\* The bodies of the model that hold a value of each operation's result type
BodiesOfType(op) ==
  CASE op = "pin_by_hash" -> { PinByHashResultBody }
    [] op \in {"pin_json", "pin_file"} -> { PinnedObjectBody }
    [] op = "get_pin_jobs" -> { RowsBody }
    [] op = "get_pin_list" -> { RowsBody, RowsBadRow }
    [] op = "get_total_user_pinned_data" -> { TotalPinnedDataBody }
BodyMatches == pr_in.response.body \in BodiesOfType(pr_in.op)
IsGenericError(r) == r.tag = "Err" /\ r.err = "GenericError"
\* The members of the body the result type knows, required ones present
IsDecoded(val, body, required) ==
  /\ required \subseteq DOMAIN val
  /\ \A m \in required : m \in DOMAIN body.obj
  /\ \A m \in DOMAIN val \cap DOMAIN body.obj :
       /\ body.obj[m].j = "string" => val[m] = body.obj[m].str
       /\ body.obj[m].j = "number" => val[m] = body.obj[m].num

\* C14: the mapper has two paths chosen by the status alone.  With a 2xx
\* status a typed operation returns the body decoded as its result type, or
\* the decoding error when the body does not match, and never GenericError;
\* with any other status it returns an error, which is the decoding error and
\* not GenericError when the body does not decode as the error envelope.  On
\* either path a body that does not arrive is the error of reading it.
C14_TwoPathsByStatus ==
  (Mapped /\ pr_in.op \in TypedOps)
    => IF NotSuccessStatus
       THEN /\ pr_out.tag = "Err"
            /\ (BodyRead /\ ~HasMessage) => pr_out = Err("Decode")
            /\ ~BodyRead => pr_out = Err("Body")
       ELSE /\ ~IsGenericError(pr_out)
            /\ (BodyRead /\ ~BodyMatches) => pr_out = Err("Decode")
            /\ ~BodyRead => pr_out = Err("Body")
            /\ BodyMatches =>
                 /\ pr_out.tag = "Ok"
                 /\ IsDecoded(pr_out.val, pr_in.response.body,
                              IF pr_in.op = "pin_by_hash" THEN {"id", "ipfsHash", "status"}
                              ELSE IF pr_in.op \in {"pin_json", "pin_file"}
                                   THEN {"IpfsHash", "PinSize", "Timestamp"}
                              ELSE IF pr_in.op \in {"get_pin_jobs", "get_pin_list"}
                                   THEN {"count", "rows"}
                              ELSE {"pin_count", "pin_size_total",
                                    "pin_size_with_replications_total"})

\* pin_json got a 204 whose body is the error envelope and returned the
\* decoding error; get_pin_jobs' case with a 500 that is not JSON is the same
\* error on the other path.
C14_Witness ==
  /\ Mapped
  /\ pr_in.op = "pin_json"
  /\ pr_in.response = Response(204, Envelope("m1"))
  /\ pr_out = Err("Decode")

(***************************************************************************)
(* pin_file: failures of the upload assembly                               *)
(***************************************************************************)
\* C15: every failure of pin_file during upload assembly reaches the caller
\* as an error value and never as a panic, for every input path: one with no
\* final component, one that does not exist, and a directory holding an entry
\* whose name is not valid UTF-8.
C15_FailuresAreErrorValues == Uploaded => upload.tag # "Panic"

(***************************************************************************)
(* The chained setters: what each leaves alone                             *)
(***************************************************************************)
Target(b) == b.obj[TargetField(b.kind)]
LastOf(setters) ==
  LET made == { i \in 1..Len(calls) : calls[i].setter \in setters }
  IN  IF made = {} THEN None
      ELSE Some(calls[CHOOSE i \in made : \A j \in made : j <= i])
ExpectedTarget ==
  IF builder.kind = "PinByFile" THEN <<[file_path |-> calls[1].arg]>> ELSE calls[1].arg
ExpectedOptions ==
  LET last == LastOf({"set_options"})
  IN  IF IsSome(last) THEN Some(last.val.options) ELSE None
ExpectedMetadata ==
  LET last == LastOf({"set_metadata", "set_metadata_with_name"})
  IN  IF ~IsSome(last) THEN None
      ELSE Some([name |-> IF last.val.setter = "set_metadata" THEN None
                          ELSE Some(last.val.name),
                 keyvalues |-> last.val.keyvalues])
SetterStep(setters) ==
  /\ Len(calls') = Len(calls) + 1
  /\ calls'[Len(calls')].setter \in setters

\* C16: the chained setters of PinByHash, PinByJson and PinByFile change only
\* the field they name.  set_options leaves the pin target and the metadata
\* unchanged; set_metadata and set_metadata_with_name leave the pin target and
\* the options unchanged; after any sequence of setter calls the options are
\* the argument of the last set_options call (absent if none was made), the
\* target is the one given to new, and the file list of a PinByFile holds
\* exactly the one path given to new.
C16_SettersChangeOnlyTheirField ==
  /\ [](/\ Target(builder) = ExpectedTarget
        /\ Request.pinata_option = ExpectedOptions
        /\ Request.pinata_metadata = ExpectedMetadata)
  /\ [][/\ SetterStep({"set_options"}) =>
             /\ Target(builder') = Target(builder)
             /\ builder'.obj.pinata_metadata = Request.pinata_metadata
        /\ SetterStep({"set_metadata", "set_metadata_with_name"}) =>
             /\ Target(builder') = Target(builder)
             /\ builder'.obj.pinata_option = Request.pinata_option]_vars

\* A PinByHash got set_options and then set_metadata and still carries the
\* options.
C16_Witness ==
  /\ builder.kind = "PinByHash"
  /\ Len(calls) = 3
  /\ SetterIs(2, "set_options")
  /\ SetterIs(3, "set_metadata")
  /\ Request.pinata_option = Some(calls[2].options)
  /\ Request.hash_to_pin = calls[1].arg

====
